---------------------------- MODULE Spec2Model ----------------------------
(***************************************************************************)
(* A model of clink (github.com/davesavic/clink), client.go: the options   *)
(* builder NewClient, the request-dispatch pipeline Client.Do (header      *)
(* injection, the rate-limiter admission gate, the bounded retry loop with *)
(* linear backoff), the per-verb helpers that call it, and the decoding    *)
(* helper ResponseToJson.                                                  *)
(*                                                                         *)
(* Time is discrete, one tick = one second (Second == 1, Minute == 60).    *)
(* Timers are relative (ticks left) and fire exactly when they reach 0:    *)
(* scheduling latency below one tick is not modelled.                      *)
(* A request's context is cancel-only (no deadline).                       *)
(***************************************************************************)
EXTENDS Integers, Sequences, FiniteSets, TLC

\* ------------------------------------------------------------------ bounds

\* Largest retry count handed to WithRetries.
MaxR == 2

\* Longest option list handed to NewClient in the builder specification.
MaxOpts == 2

\* Longest response body, in tokens, handed to ResponseToJson.
MaxBody == 5

\* ------------------------------------------------------- program constants

\* time.Second and time.Minute, in ticks.
Second == 1
Minute == 60

\* The callers that each make one call on the shared client: c1 and c2 call
\* Do with a request of their own, h1 calls one of the per-verb helpers.
Callers == {"c1", "c2", "h1"}
HelperCallers == {"h1"}
NoCaller == "none"

\* ------------------------------------------------------------------ values

\* nil *http.Response / nil error.  An error is its chain of messages,
\* outermost first, so fmt.Errorf("...: %w", err) prepends one message.
NilResp == [status |-> 0, attempt |-> -1]
NoErr == <<>>
Wrap(msg, err) == <<msg>> \o err

StatusOK == 200
StatusInternalServerError == 500

\* What one transport invocation (c.HttpClient.Do) can return on the given
\* attempt: a response (any status) and no error, or no response and an error.
\* Responses and errors carry the attempt that produced them.
TransportOutcomes(attempt) ==
    { [resp |-> [status |-> s, attempt |-> attempt], err |-> NoErr]
        : s \in {StatusOK, StatusInternalServerError} }
    \cup { [resp |-> NilResp, err |-> <<"transport error", ToString(attempt)>>] }

\* The retry predicates handed to WithRetries (nil, or a pure function of
\* request, response and error).  "on500" is the predicate of
\* TestSuccessfulRetries, "never" the one of TestUnsuccessfulRetries.
RetryFuncs == {"nil", "always", "never", "on500"}

ShouldRetryFunc(f, resp, err) ==
    CASE f = "always" -> TRUE
      [] f = "never"  -> FALSE
      [] f = "on500"  -> resp # NilResp /\ resp.status = StatusInternalServerError

\* ----------------------------------------------------------------- headers

\* Header names as the options write them into c.Headers (a Go map keyed by
\* the exact string), and net/http's canonical form of each, which is the
\* key req.Header.Set stores under (textproto.CanonicalMIMEHeaderKey).
RawKeys == {"User-Agent", "user-agent", "Authorization"}

CanonicalHeaderKey(k) ==
    CASE k = "user-agent"    -> "User-Agent"
      [] k = "User-Agent"    -> "User-Agent"
      [] k = "Authorization" -> "Authorization"

EmptyMap == [k \in {} |-> ""]

\* m[k] = v on a Go map.
MapSet(m, k, v) == [x \in DOMAIN m \cup {k} |-> IF x = k THEN v ELSE m[x]]

\* base64.StdEncoding.EncodeToString on the credentials used here.
Base64(s) ==
    CASE s = "u:p" -> "dTpw"
      [] s = "u:q" -> "dTpx"

\* ----------------------------------------------------------------- options

WithClient(h) == [op |-> "WithClient", client |-> h]
WithHeader(k, v) == [op |-> "WithHeader", key |-> k, value |-> v]
WithHeaders(m) == [op |-> "WithHeaders", headers |-> m]
WithRateLimit(rpm) == [op |-> "WithRateLimit", rpm |-> rpm]
WithBasicAuth(u, p) == [op |-> "WithBasicAuth", username |-> u, password |-> p]
WithBearerAuth(t) == [op |-> "WithBearerAuth", token |-> t]
WithUserAgent(ua) == [op |-> "WithUserAgent", ua |-> ua]
WithRetries(n, f) == [op |-> "WithRetries", count |-> n, retryFunc |-> f]

\* Go's integer division truncates toward zero.
GoDiv(a, b) ==
    IF (a >= 0) = (b > 0)
    THEN (IF a >= 0 THEN a ELSE -a) \div (IF b > 0 THEN b ELSE -b)
    ELSE -((IF a >= 0 THEN a ELSE -a) \div (IF b > 0 THEN b ELSE -b))

\* rate.Every(interval): the limit "one event per interval"; a non-positive
\* interval is rate.Inf, written here as the interval 0.
Every(interval) == IF interval <= 0 THEN 0 ELSE interval

\* A *rate.Limiter handle: nil, or a bucket of `burst` tokens refilled with
\* one token per `every` ticks.
NoLimiter == [set |-> FALSE, every |-> 0, burst |-> 0]
NewLimiter(every, burst) == [set |-> TRUE, every |-> every, burst |-> burst]

defaultClient ==
    [HttpClient |-> "default",
     Headers |-> EmptyMap,
     RateLimiter |-> NoLimiter,
     MaxRetries |-> 0,
     ShouldRetryFunc |-> "nil"]

\* WithHeaders: every pair of the argument is written; the keys of one Go map
\* are distinct, so the order of the writes does not matter.
RECURSIVE MergeHeaders(_, _)
MergeHeaders(m, h) ==
    IF DOMAIN h = {} THEN m
    ELSE LET k == CHOOSE x \in DOMAIN h : TRUE
         IN MergeHeaders(MapSet(m, k, h[k]),
                         [x \in DOMAIN h \ {k} |-> h[x]])

\* RateLimitOption with a bucket of two tokens.
RateLimitOptionBurst2(rpm) == NewLimiter(Every(GoDiv(Minute, rpm)), 2)

\* interval := time.Minute / time.Duration(rpm);
\* rate.NewLimiter(rate.Every(interval), 1)
RateLimitOption(rpm) == NewLimiter(Every(GoDiv(Minute, rpm)), 1)

\* One option applied to the client under construction.
ApplyOption(c, o) ==
    CASE o.op = "WithClient" -> [c EXCEPT !.HttpClient = o.client]
      [] o.op = "WithHeader" ->
            [c EXCEPT !.Headers = MapSet(c.Headers, o.key, o.value)]
      [] o.op = "WithHeaders" ->
            [c EXCEPT !.Headers = MergeHeaders(c.Headers, o.headers)]
      [] o.op = "WithRateLimit" ->
            [c EXCEPT !.RateLimiter = RateLimitOption(o.rpm)]
      [] o.op = "WithBasicAuth" ->
            [c EXCEPT !.Headers = MapSet(c.Headers, "Authorization",
                "Basic " \o Base64(o.username \o ":" \o o.password))]
      [] o.op = "WithBearerAuth" ->
            [c EXCEPT !.Headers = MapSet(c.Headers, "Authorization",
                "Bearer " \o o.token)]
      [] o.op = "WithUserAgent" ->
            [c EXCEPT !.Headers = MapSet(c.Headers, "User-Agent", o.ua)]
      [] o.op = "WithRetries" ->
            [c EXCEPT !.MaxRetries = o.count, !.ShouldRetryFunc = o.retryFunc]

\* The options of os from position i on, applied in order.
RECURSIVE ApplyFrom(_, _, _)
ApplyFrom(c, os, i) ==
    IF i > Len(os) THEN c ELSE ApplyFrom(ApplyOption(c, os[i]), os, i + 1)

\* NewClient applying its options last to first.
NewClientReversed(os) ==
    ApplyFrom(defaultClient, [i \in 1..Len(os) |-> os[Len(os) + 1 - i]], 1)

NewClient(os) == ApplyFrom(defaultClient, os, 1)


\* ------------------------------------------------------------------- state

VARIABLES
    opts,       \* the option list NewClient was called with
    built,      \* whether NewClient has returned
    active,     \* the callers that call Do in this run
    client,     \* the *Client: HttpClient, Headers, RateLimiter, MaxRetries, ShouldRetryFunc
    lim,        \* the rate limiter's bucket: fullIn = ticks until the bucket is
                \* full again, lastRes = the holder of the latest reservation
                \* (the limiter's lastEvent), res = reservations made so far
    pc,         \* per caller: where its Do call stands
    req,        \* per caller: the request's header map (canonical key -> value)
    rline,      \* per caller: the request's Method and URL
    body,       \* per caller: the request's Body: "nil", or a single-use
                \* stream that is "unread" or "spent" (read to its end or closed)
    ctxDone,    \* per caller: whether the request's context is cancelled
    attempt,    \* per caller: the loop variable of Do
    resp,       \* per caller: Do's local resp
    err,        \* per caller: Do's local err
    timer,      \* per caller: ticks left of the limiter wait or of time.Sleep
    ret,        \* per caller: what Do returned
    stat,       \* per caller: what an observer of the call has recorded
    rtj,        \* the ResponseToJson call: its arguments (response, target),
                \* its position, its result, and what it did to the body
    gap         \* observer of the gate: admits = admissions so far, since =
                \* ticks since the latest one (saturating at the limiter's
                \* interval), last = the spacing between the latest admission
                \* and the one before it (-1 if there was none before)

vars == <<opts, built, active, client, lim, pc, req, rline, body, ctxDone,
          attempt, resp, err, timer, ret, stat, rtj, gap>>

\* The cap of gap.since: the interval of the client's limiter (0 without one).
MaxEvery == IF client.RateLimiter.set THEN client.RateLimiter.every ELSE 0

NoRet == [resp |-> NilResp, err |-> NoErr, returned |-> FALSE]

NoLine == [Method |-> "", URL |-> ""]

NoStat ==
    [called |-> "",         \* the function the caller called: Do or a per-verb helper
     given |-> [url |-> "", body |-> "nil"],  \* the url and body handed to a helper
     orig |-> EmptyMap,     \* the header map the caller built the request with
     injected |-> FALSE,    \* header injection has run
     inv |-> 0,             \* transport invocations
     seen |-> {},           \* header maps the transport was invoked with
     lines |-> {},          \* methods and URLs the transport was invoked with
     fresh |-> 0,           \* invocations handed a request whose body was unread
     stale |-> 0,           \* invocations handed a request whose body was spent
     tlast |-> [resp |-> NilResp, err |-> NoErr],  \* what its last invocation returned
     oks |-> 0,             \* invocations that returned a response with status 200
     resps |-> 0,           \* invocations that returned a response (its body open)
     closed |-> 0,          \* response bodies closed by Do
     dropped |-> 0,         \* responses Do overwrote with their body still open
     evals |-> 0,           \* predicate evaluations
     plast |-> [req |-> EmptyMap, resp |-> NilResp, err |-> NoErr],
                            \* the arguments of the last predicate evaluation
     vetoAt |-> -1,         \* the attempt after which the predicate first returned false
     sleeps |-> 0,          \* calls of time.Sleep
     sleepReq |-> 0,        \* the sum of the durations handed to time.Sleep
     slept |-> 0,           \* ticks spent inside time.Sleep
     tokens |-> 0,          \* tokens granted by the limiter
     midSleep |-> FALSE,    \* the context was cancelled inside a time.Sleep with time left
     order |-> 0]           \* the call's rank among the limiter's reservations

\* A *http.Response handed to ResponseToJson: nil, or a response whose Body
\* is nil or a stream holding the given JSON tokens.
NilResponse == [nil |-> TRUE, hasBody |-> FALSE, data |-> <<>>]
BodylessResponse == [nil |-> FALSE, hasBody |-> FALSE, data |-> <<>>]
ResponseWith(data) == [nil |-> FALSE, hasBody |-> TRUE, data |-> data]

\* The caller's target before the call (var t map[string]string: a nil map).
NilTarget == [nil |-> TRUE, m |-> EmptyMap]

\* No ResponseToJson call has been made.
IdleJson ==
    [pc |-> "idle",
     response |-> NilResponse,
     target |-> NilTarget,
     err |-> NoErr,
     returned |-> FALSE,
     deferred |-> FALSE,    \* the deferred Body.Close() is registered
     reads |-> 0,           \* reads of the body stream
     closes |-> 0]          \* calls of Body.Close()

IdleDo ==
    /\ lim = [fullIn |-> 0, lastRes |-> NoCaller, res |-> 0]
    /\ pc = [c \in Callers |-> "idle"]
    /\ req = [c \in Callers |-> EmptyMap]
    /\ rline = [c \in Callers |-> NoLine]
    /\ body = [c \in Callers |-> "nil"]
    /\ ctxDone = [c \in Callers |-> FALSE]
    /\ attempt = [c \in Callers |-> 0]
    /\ resp = [c \in Callers |-> NilResp]
    /\ err = [c \in Callers |-> NoErr]
    /\ timer = [c \in Callers |-> 0]
    /\ ret = [c \in Callers |-> NoRet]
    /\ stat = [c \in Callers |-> NoStat]
    /\ gap = [admits |-> 0, since |-> 0, last |-> -1]

\* ----------------------------------------------------------------- inputs

\* Header maps a caller may have put on its request before Do.
ReqHeaderChoices ==
    { EmptyMap,
      [k \in {"User-Agent", "Authorization"} |-> "orig"] }

\* URLs handed to http.NewRequest, and whether url.Parse accepts them.
URLs == {"http://h/p", "://h"}

ParseFails(url) ==
    CASE url = "http://h/p" -> FALSE
      [] url = "://h"       -> TRUE

\* Requests a caller of Do may build: without a body and with or without
\* headers of its own, or with a single-use stream as its body.
SoloRequests ==
    { [Method |-> "GET", URL |-> "http://h/p", Header |-> h, Body |-> "nil"]
        : h \in ReqHeaderChoices }
    \cup { [Method |-> "POST", URL |-> "http://h/p", Header |-> EmptyMap,
            Body |-> "unread"] }

\* The requests of callers that share the client with another caller.
ConcurrentRequests == { r \in SoloRequests : r.Body = "nil" }

Requests == IF Cardinality(active) > 1 THEN ConcurrentRequests ELSE SoloRequests

\* The per-verb helpers and the bodies handed to them.
Helpers == {"Head", "Options", "Get", "Post", "Put", "Patch", "Delete"}
BodyChoices == {"nil", "unread"}

RetryChoices ==
    {<<>>} \cup { <<WithRetries(n, f)>> : n \in (-1)..MaxR, f \in RetryFuncs }

LimitChoices ==
    { <<>>, <<WithRateLimit(60)>>, <<WithRateLimit(30)>>, <<WithRateLimit(-60)>> }

HeaderChoices ==
    { <<>>,
      <<WithUserAgent("a"), WithHeader("user-agent", "b")>>,
      <<WithBasicAuth("u", "p"), WithBearerAuth("t")>> }

\* The runs of the dispatch specification: an option list for NewClient and
\* the callers that use the client.  One caller alone meets every
\* configuration; two concurrent callers meet the configurations of
\* ConcurrentConfigs.
ConcurrentConfigs ==
    { h \o l \o r :
        h \in {<<WithUserAgent("a")>>},
        l \in {<<>>, <<WithRateLimit(60)>>, <<WithRateLimit(30)>>},
        r \in {<<>>, <<WithRetries(MaxR, "on500")>>} }

\* The configurations a caller of the per-verb helpers meets.
HelperConfigs ==
    { h \o l \o r :
        h \in {<<>>, <<WithBearerAuth("t")>>},
        l \in {<<>>, <<WithRateLimit(60)>>},
        r \in {<<>>, <<WithRetries(1, "on500")>>} }

Scenarios ==
    { [opts |-> h \o l \o r, active |-> {"c1"}] :
        h \in HeaderChoices, l \in LimitChoices, r \in RetryChoices }
    \cup { [opts |-> o, active |-> Callers \ HelperCallers] : o \in ConcurrentConfigs }
    \cup { [opts |-> o, active |-> HelperCallers] : o \in HelperConfigs }

\* -------------------------------------------------------------- Client.Do

\* All orders in which a Go range loop may visit the keys S of a map.
RECURSIVE Orders(_)
Orders(S) ==
    IF S = {} THEN {<<>>}
    ELSE UNION { { <<k>> \o o : o \in Orders(S \ {k}) } : k \in S }

\* req.Header.Set(key, value): stored under the canonical form of key.
HeaderSet(h, key, value) == MapSet(h, CanonicalHeaderKey(key), value)

\* SetHeaders with the loop left out: the request is passed on as it came.
SetHeadersSkipped(h, headers, order) == h

\* for key, value := range c.Headers { req.Header.Set(key, value) }, the keys
\* visited in the given order.
RECURSIVE SetHeaders(_, _, _)
SetHeaders(h, headers, order) ==
    IF order = <<>> THEN h
    ELSE SetHeaders(HeaderSet(h, Head(order), headers[Head(order)]),
                    headers, Tail(order))

\* DoEnter with the request's own headers remembered in the configuration.
DoEnterMerging(c, r, fn, given) ==
    /\ \E order \in Orders(DOMAIN client.Headers) :
          req' = [req EXCEPT ![c] = SetHeaders(r.Header, client.Headers, order)]
    /\ client' = [client EXCEPT !.Headers = MergeHeaders(@, r.Header)]
    /\ rline' = [rline EXCEPT ![c] = [Method |-> r.Method, URL |-> r.URL]]
    /\ body' = [body EXCEPT ![c] = r.Body]
    /\ stat' = [stat EXCEPT ![c].called = fn, ![c].given = given,
                            ![c].orig = r.Header, ![c].injected = TRUE]
    /\ pc' = [pc EXCEPT ![c] = "gate"]
    /\ UNCHANGED <<rtj, opts, built, active, lim, ctxDone, attempt, resp, err,
                   timer, ret, gap>>

\* client.go:44-47.  Do is entered with request r, by the caller itself
\* (fn = "Do") or by helper fn on the caller's behalf with the url and body it
\* was given; every configured header is set on the request.
DoEnter(c, r, fn, given) ==
    /\ \E order \in Orders(DOMAIN client.Headers) :
          req' = [req EXCEPT ![c] = SetHeaders(r.Header, client.Headers, order)]
    /\ rline' = [rline EXCEPT ![c] = [Method |-> r.Method, URL |-> r.URL]]
    /\ body' = [body EXCEPT ![c] = r.Body]
    /\ stat' = [stat EXCEPT ![c].called = fn, ![c].given = given,
                            ![c].orig = r.Header, ![c].injected = TRUE]
    /\ pc' = [pc EXCEPT ![c] = "gate"]
    /\ UNCHANGED <<rtj, opts, built, active, client, lim, ctxDone, attempt, resp,
                   err, timer, ret, gap>>

\* A caller calls Do with a request it built.
DoStart(c, r) ==
    /\ built
    /\ c \in active \ HelperCallers
    /\ pc[c] = "idle"
    /\ DoEnter(c, r, "Do", [url |-> r.URL, body |-> r.Body])

\* HelperMethod with Options sending GET, as its doc comment has it.
HelperMethodOptionsAsGet(fn) ==
    CASE fn = "Head"    -> "HEAD"
      [] fn = "Options" -> "GET"
      [] fn = "Get"     -> "GET"
      [] fn = "Post"    -> "POST"
      [] fn = "Put"     -> "PUT"
      [] fn = "Patch"   -> "PATCH"
      [] fn = "Delete"  -> "DELETE"

\* The fixed method of each helper (http.MethodHead, ...).
HelperMethod(fn) ==
    CASE fn = "Head"    -> "HEAD"
      [] fn = "Options" -> "OPTIONS"
      [] fn = "Get"     -> "GET"
      [] fn = "Post"    -> "POST"
      [] fn = "Put"     -> "PUT"
      [] fn = "Patch"   -> "PATCH"
      [] fn = "Delete"  -> "DELETE"

\* The body a helper hands to http.NewRequest: Post, Put and Patch pass the
\* caller's body on, the others pass nil.
HelperBody(fn, b) == IF fn \in {"Post", "Put", "Patch"} THEN b ELSE "nil"

\* http.NewRequest(method, url, body): an error if the url does not parse,
\* else a request with that method, url and body, no headers, and the
\* background context.
NewRequest(method, url, b) ==
    IF ParseFails(url)
    THEN [ok |-> FALSE, err |-> <<"parse " \o url>>]
    ELSE [ok |-> TRUE,
          req |-> [Method |-> method, URL |-> url, Header |-> EmptyMap, Body |-> b]]

\* client.go:78-139.  Helper fn builds its request and calls Do with it; if
\* the request cannot be built it returns the error of http.NewRequest.
Helper(c, fn, url, b) ==
    /\ built
    /\ c \in active \cap HelperCallers
    /\ pc[c] = "idle"
    /\ LET nr == NewRequest(HelperMethod(fn), url, HelperBody(fn, b))
       IN IF nr.ok
          THEN DoEnter(c, nr.req, fn, [url |-> url, body |-> b])
          ELSE /\ ret' = [ret EXCEPT ![c] =
                            [resp |-> NilResp, err |-> nr.err, returned |-> TRUE]]
               /\ pc' = [pc EXCEPT ![c] = "done"]
               /\ stat' = [stat EXCEPT ![c].called = fn,
                                       ![c].given = [url |-> url, body |-> b]]
               /\ UNCHANGED <<rtj, opts, built, active, client, lim, req, rline, body,
                              ctxDone, attempt, resp, err, timer, gap>>

\* The observer's record of an admission through the gate.
Admitted(g) ==
    [admits |-> g.admits + 1,
     since |-> 0,
     last |-> IF g.admits > 0 THEN g.since ELSE -1]

\* HasLimiter with the limiter never consulted.
HasLimiterNever == FALSE

\* if c.RateLimiter != nil
HasLimiter == client.RateLimiter.set

\* WaitRefuses without the check of the context before the reservation.
WaitRefusesNever(c) == FALSE

\* rate.Limiter.Wait returns ctx.Err() at once if the context is already done.
WaitRefuses(c) == ctxDone[c]

\* GateFailure with the limiter's error swallowed: nil, nil is returned.
GateFailureSwallowed(e) == [resp |-> NilResp, err |-> NoErr, returned |-> TRUE]

\* fmt.Errorf("failed to wait for rate limiter: %w", err), returned with a
\* nil response.
GateFailure(e) ==
    [resp |-> NilResp,
     err |-> Wrap("failed to wait for rate limiter", e),
     returned |-> TRUE]

\* The delay of a reservation made now on limiter handle l with bucket b:
\* none while a whole token is in the bucket, else until one has dripped in.
ReserveDelay(l, b) ==
    IF b.fullIn - (l.burst - 1) * l.every > 0
    THEN b.fullIn - (l.burst - 1) * l.every
    ELSE 0

\* client.go:49-53, up to the point where Wait blocks.  With no limiter the
\* gate is skipped.  Otherwise Wait refuses a done context, and else reserves
\* the next token (at once, and without touching the bucket, for an infinite
\* limit) and blocks until the reservation's time if that is in the future.
Gate(c) ==
    /\ pc[c] = "gate"
    /\ IF ~HasLimiter
       THEN /\ pc' = [pc EXCEPT ![c] = "loop"]
            /\ UNCHANGED <<lim, timer, ret, stat, gap>>
       ELSE IF WaitRefuses(c)
       THEN /\ ret' = [ret EXCEPT ![c] = GateFailure(<<"context canceled">>)]
            /\ pc' = [pc EXCEPT ![c] = "done"]
            /\ UNCHANGED <<lim, timer, stat, gap>>
       ELSE IF client.RateLimiter.every = 0
       THEN /\ pc' = [pc EXCEPT ![c] = "loop"]
            /\ stat' = [stat EXCEPT ![c].tokens = @ + 1]
            /\ gap' = Admitted(gap)
            /\ UNCHANGED <<lim, timer, ret>>
       ELSE LET d == ReserveDelay(client.RateLimiter, lim)
            IN /\ lim' = [fullIn |-> lim.fullIn + client.RateLimiter.every,
                          lastRes |-> c,
                          res |-> lim.res + 1]
               /\ IF d = 0
                  THEN /\ pc' = [pc EXCEPT ![c] = "loop"]
                       /\ stat' = [stat EXCEPT ![c].tokens = @ + 1,
                                               ![c].order = lim.res + 1]
                       /\ gap' = Admitted(gap)
                       /\ UNCHANGED timer
                  ELSE /\ pc' = [pc EXCEPT ![c] = "waiting"]
                       /\ timer' = [timer EXCEPT ![c] = d]
                       /\ stat' = [stat EXCEPT ![c].order = lim.res + 1]
                       /\ UNCHANGED gap
               /\ UNCHANGED ret
    /\ UNCHANGED <<rtj, opts, built, active, client, req, rline, body, ctxDone,
                   attempt, resp, err>>

\* The timer of Wait fires: the token is granted and Wait returns nil.
WaitDone(c) ==
    /\ pc[c] = "waiting"
    /\ timer[c] = 0
    /\ pc' = [pc EXCEPT ![c] = "loop"]
    /\ stat' = [stat EXCEPT ![c].tokens = @ + 1]
    /\ gap' = Admitted(gap)
    /\ UNCHANGED <<rtj, opts, built, active, client, lim, req, rline, body, ctxDone, attempt,
                   resp, err, timer, ret>>

\* The holder of the reservation one interval before caller c's, if it still
\* waits (the limiter's lastEvent after c's reservation is cancelled).
PrevWaiter(c) ==
    LET prev == { o \in Callers \ {c} :
                    /\ pc[o] = "waiting"
                    /\ timer[o] = timer[c] - client.RateLimiter.every }
    IN IF prev = {} THEN NoCaller ELSE CHOOSE o \in prev : TRUE

\* The context is done while Wait blocks: the reservation is cancelled (its
\* token is given back only if no later reservation was made) and Do returns
\* the gate error.
WaitCancelled(c) ==
    /\ pc[c] = "waiting"
    /\ ctxDone[c]
    /\ lim' = IF lim.lastRes = c
              THEN [lim EXCEPT !.fullIn = @ - client.RateLimiter.every,
                               !.lastRes = PrevWaiter(c)]
              ELSE lim
    /\ ret' = [ret EXCEPT ![c] = GateFailure(<<"context canceled">>)]
    /\ pc' = [pc EXCEPT ![c] = "done"]
    /\ timer' = [timer EXCEPT ![c] = 0]
    /\ UNCHANGED <<rtj, opts, built, active, client, req, rline, body, ctxDone, attempt, resp,
                   err, stat, gap>>

\* LoopCond of a loop that tests after its body: attempt 0 is always made.
LoopCondAfterBody(a, maxRetries) == a = 0 \/ a <= maxRetries

\* LoopCond with the last attempt left out (attempt < c.MaxRetries).
LoopCondExclusive(a, maxRetries) == a < maxRetries

\* LoopCond with one attempt too many (attempt <= c.MaxRetries + 1).
LoopCondOneMore(a, maxRetries) == a <= maxRetries + 1

\* for attempt := 0; attempt <= c.MaxRetries; attempt++
LoopCond(a, maxRetries) == a <= maxRetries

\* Vetoed with the predicate's answer ignored: the loop never breaks.
VetoedNever(f, r, e) == FALSE

\* Vetoed with an implicit stop on the first attempt that returns no error
\* when no predicate is configured.
VetoedStopOnSuccess(f, r, e) ==
    IF f = "nil" THEN e = NoErr ELSE ~ShouldRetryFunc(f, r, e)

\* if c.ShouldRetryFunc != nil && !c.ShouldRetryFunc(req, resp, err) { break }
Vetoed(f, r, e) == f # "nil" /\ ~ShouldRetryFunc(f, r, e)

\* if attempt < c.MaxRetries
WillSleep(a, maxRetries) == a < maxRetries

\* Backoff as the comment at client.go:66 names it: exponential.
BackoffExponential(a) == (2 ^ a) * Second

\* time.Duration(attempt) * time.Second
Backoff(a) == a * Second

\* What a transport invocation leaves of the request's body: the transport
\* reads a stream to its end, or closes it unread when it fails early.
BodyAfterTransport(b) == IF b = "unread" THEN "spent" ELSE b

\* ReleasePrevious with the body of the previous attempt's response closed
\* before resp is assigned again.
ReleasePreviousAlways(r) == r # NilResp

\* resp, err = c.HttpClient.Do(req): whether Do closes the body of the
\* response resp held before the assignment.  It does not.
ReleasePrevious(r) == FALSE

\* PredicateAsked with the evaluation spared on the last possible attempt,
\* where its answer cannot change what Do does.
PredicateAskedUnlessLast(f, a, maxRetries) == f # "nil" /\ a < maxRetries

\* c.ShouldRetryFunc != nil && !c.ShouldRetryFunc(req, resp, err): a
\* configured predicate is evaluated after the invocation of any attempt.
PredicateAsked(f, a, maxRetries) == f # "nil"

\* client.go:58-68, one iteration of the loop up to time.Sleep: the transport
\* is invoked with req, the predicate (if any) is asked, and the loop breaks,
\* sleeps or moves on to attempt++ and its exit test.
Attempt(c) ==
    /\ pc[c] = "loop"
    /\ LoopCond(attempt[c], client.MaxRetries)
    /\ \E out \in TransportOutcomes(attempt[c]) :
         LET asked == PredicateAsked(client.ShouldRetryFunc, attempt[c],
                                     client.MaxRetries)
             said == IF asked
                     THEN ShouldRetryFunc(client.ShouldRetryFunc, out.resp, out.err)
                     ELSE TRUE
             veto == Vetoed(client.ShouldRetryFunc, out.resp, out.err)
             sleep == ~veto /\ WillSleep(attempt[c], client.MaxRetries)
             d == Backoff(attempt[c])
         IN /\ resp' = [resp EXCEPT ![c] = out.resp]
            /\ err' = [err EXCEPT ![c] = out.err]
            /\ stat' = [stat EXCEPT
                          ![c].inv = @ + 1,
                          ![c].seen = @ \cup {req[c]},
                          ![c].lines = @ \cup {rline[c]},
                          ![c].fresh = IF body[c] = "unread" THEN @ + 1 ELSE @,
                          ![c].stale = IF body[c] = "spent" THEN @ + 1 ELSE @,
                          ![c].tlast = out,
                          ![c].oks = IF out.resp.status = StatusOK THEN @ + 1 ELSE @,
                          ![c].resps = IF out.resp # NilResp THEN @ + 1 ELSE @,
                          ![c].closed = IF ReleasePrevious(resp[c]) THEN @ + 1 ELSE @,
                          ![c].dropped =
                              IF resp[c] # NilResp /\ ~ReleasePrevious(resp[c])
                              THEN @ + 1 ELSE @,
                          ![c].evals = IF asked THEN @ + 1 ELSE @,
                          ![c].plast = IF asked
                                       THEN [req |-> req[c], resp |-> out.resp,
                                             err |-> out.err]
                                       ELSE @,
                          ![c].vetoAt = IF ~said /\ @ = -1 THEN attempt[c] ELSE @,
                          ![c].sleeps = IF sleep THEN @ + 1 ELSE @,
                          ![c].sleepReq = IF sleep THEN @ + d ELSE @]
            /\ pc' = [pc EXCEPT ![c] =
                        IF veto THEN "exit" ELSE IF sleep THEN "sleeping" ELSE "loop"]
            /\ timer' = [timer EXCEPT ![c] = IF sleep THEN d ELSE @]
            /\ attempt' = [attempt EXCEPT ![c] =
                             IF veto \/ sleep THEN @ ELSE @ + 1]
    /\ body' = [body EXCEPT ![c] = BodyAfterTransport(@)]
    /\ UNCHANGED <<rtj, opts, built, active, client, lim, req, rline, ctxDone, ret, gap>>

\* SleepOver with a sleep that also ends when the request's context is done.
SleepOverOrCancelled(c) == timer[c] = 0 \/ ctxDone[c]

\* time.Sleep(d) returns once d has passed, and for no other reason.
SleepOver(c) == timer[c] = 0

\* Wake with the admission gate passed again before the next attempt.
WakeThroughGate(c) ==
    /\ pc[c] = "sleeping"
    /\ SleepOver(c)
    /\ pc' = [pc EXCEPT ![c] = "gate"]
    /\ attempt' = [attempt EXCEPT ![c] = @ + 1]
    /\ UNCHANGED <<rtj, opts, built, active, client, lim, req, rline, body,
                   ctxDone, resp, err, timer, ret, stat, gap>>

\* Wake with the request's body rewound for the next attempt.
WakeRewinding(c) ==
    /\ pc[c] = "sleeping"
    /\ SleepOver(c)
    /\ pc' = [pc EXCEPT ![c] = "loop"]
    /\ attempt' = [attempt EXCEPT ![c] = @ + 1]
    /\ body' = [body EXCEPT ![c] = IF @ = "spent" THEN "unread" ELSE @]
    /\ UNCHANGED <<rtj, opts, built, active, client, lim, req, rline, ctxDone, resp,
                   err, timer, ret, stat, gap>>

\* time.Sleep returns; attempt++.
Wake(c) ==
    /\ pc[c] = "sleeping"
    /\ SleepOver(c)
    /\ pc' = [pc EXCEPT ![c] = "loop"]
    /\ attempt' = [attempt EXCEPT ![c] = @ + 1]
    /\ UNCHANGED <<rtj, opts, built, active, client, lim, req, rline, body, ctxDone, resp, err,
                   timer, ret, stat, gap>>

\* DoResult with the response handed back beside the unwrapped error.
DoResultUnwrapped(r, e) == [resp |-> r, err |-> e, returned |-> TRUE]

\* client.go:71-75: what Do returns from its locals resp and err.
DoResult(r, e) ==
    IF e # NoErr
    THEN [resp |-> NilResp, err |-> Wrap("failed to do request", e), returned |-> TRUE]
    ELSE [resp |-> r, err |-> NoErr, returned |-> TRUE]

\* The loop is over (break, or the loop condition fails): Do returns.
Return(c) ==
    /\ \/ pc[c] = "exit"
       \/ pc[c] = "loop" /\ ~LoopCond(attempt[c], client.MaxRetries)
    /\ ret' = [ret EXCEPT ![c] = DoResult(resp[c], err[c])]
    /\ pc' = [pc EXCEPT ![c] = "done"]
    /\ UNCHANGED <<rtj, opts, built, active, client, lim, req, rline, body, ctxDone, attempt,
                   resp, err, timer, stat, gap>>

\* The caller (or anyone holding the context) cancels the request's context,
\* before or during the Do call.  A helper's request has the background
\* context, which is never done.
CancelCtx(c) ==
    /\ built
    /\ c \in active \ HelperCallers
    /\ pc[c] # "done"
    /\ ~ctxDone[c]
    /\ ctxDone' = [ctxDone EXCEPT ![c] = TRUE]
    /\ stat' = [stat EXCEPT ![c].midSleep = pc[c] = "sleeping" /\ timer[c] > 0]
    /\ UNCHANGED <<rtj, opts, built, active, client, lim, pc, req, rline, body, attempt, resp,
                   err, timer, ret, gap>>

Blocked(c) == pc[c] \in {"waiting", "sleeping"}

\* A blocked call that is due to run now: its timer has fired, or the context
\* its Wait selects on is done.
Due(c) ==
    \/ Blocked(c) /\ timer[c] = 0
    \/ pc[c] = "waiting" /\ ctxDone[c]

\* One tick of time passes.  No due call is overrun: it runs first.
Tick ==
    /\ built
    /\ \A c \in Callers : ~Due(c)
    /\ \/ \E c \in Callers : Blocked(c)
       \/ lim.fullIn > 0
       \/ gap.admits > 0 /\ gap.since < MaxEvery
    /\ timer' = [c \in Callers |-> IF Blocked(c) THEN timer[c] - 1 ELSE timer[c]]
    /\ lim' = [lim EXCEPT !.fullIn = IF @ > 0 THEN @ - 1 ELSE 0]
    /\ gap' = [gap EXCEPT !.since = IF gap.admits > 0 /\ @ < MaxEvery THEN @ + 1 ELSE @]
    /\ stat' = [c \in Callers |->
                  IF pc[c] = "sleeping"
                  THEN [stat[c] EXCEPT !.slept = @ + 1]
                  ELSE stat[c]]
    /\ UNCHANGED <<rtj, opts, built, active, client, pc, req, rline, body, ctxDone, attempt,
                   resp, err, ret>>

\* ---------------------------------------------------------- specifications

\* The dispatch specification: a client built by NewClient from the option
\* list of one of the Scenarios, and the callers' Do calls on it.
Init ==
    /\ \E s \in Scenarios : opts = s.opts /\ active = s.active
    /\ built = TRUE
    /\ client = NewClient(opts)
    /\ IdleDo
    /\ rtj = IdleJson

Next ==
    \/ \E c \in Callers : \E r \in Requests : DoStart(c, r)
    \/ \E c \in Callers : \E fn \in Helpers, url \in URLs, b \in BodyChoices :
          Helper(c, fn, url, b)
    \/ \E c \in Callers : Gate(c)
    \/ \E c \in Callers : WaitDone(c)
    \/ \E c \in Callers : WaitCancelled(c)
    \/ \E c \in Callers : Attempt(c)
    \/ \E c \in Callers : Wake(c)
    \/ \E c \in Callers : Return(c)
    \/ \E c \in Callers : CancelCtx(c)
    \/ Tick

Spec == Init /\ [][Next]_vars

\* What the Go runtime guarantees a Do call: a goroutine that can run does
\* run, time passes, and timers fire.  Cancellation is up to the caller.
Fairness ==
    /\ \A c \in Callers :
          /\ WF_vars(Gate(c))
          /\ WF_vars(WaitDone(c))
          /\ WF_vars(WaitCancelled(c))
          /\ WF_vars(Attempt(c))
          /\ WF_vars(Wake(c))
          /\ WF_vars(Return(c))
    /\ WF_vars(Tick)

\* The dispatch specification under that scheduling; every transport
\* invocation returns (Attempt is one step) and the limiter's timers fire.
SpecFair == Init /\ [][Next]_vars /\ Fairness

\* ---------------------------------------------------------- ResponseToJson

\* The tokens a body is made of: braces, the colon, the string literals
\* "key" and "value", and a number literal.
JsonTokens == {"{", "}", ":", "k", "v", "1"}

IsString(t) == t \in {"k", "v"}

\* The Go string a string literal decodes to.
StringOf(t) ==
    CASE t = "k" -> "key"
      [] t = "v" -> "value"

\* All bodies of at most n tokens.
RECURSIVE BodiesUpTo(_)
BodiesUpTo(n) ==
    IF n = 0 THEN {<<>>}
    ELSE BodiesUpTo(n - 1)
         \cup { Append(b, t) : b \in { x \in BodiesUpTo(n - 1) : Len(x) = n - 1 },
                               t \in JsonTokens }

JsonResponses ==
    {NilResponse, BodylessResponse} \cup { ResponseWith(b) : b \in BodiesUpTo(MaxBody) }

\* The decoder's scanner on the value that starts at token i of stream s: a
\* string, a number, an empty object or an object of one member.  It stops
\* behind the value (next) and looks at nothing that follows it; the stream
\* ending before the value does is io.EOF if nothing was there at all and
\* io.ErrUnexpectedEOF else.
RECURSIVE ScanValue(_, _)
ScanValue(s, i) ==
    LET eof == [ok |-> FALSE, next |-> i,
                err |-> IF Len(s) = 0 THEN "EOF" ELSE "unexpected EOF"]
        bad(j) == [ok |-> FALSE, next |-> j,
                   err |-> "invalid character " \o s[j]]
    IN IF i > Len(s) THEN eof
       ELSE IF IsString(s[i]) \/ s[i] = "1" THEN [ok |-> TRUE, next |-> i + 1, err |-> ""]
       ELSE IF s[i] # "{" THEN bad(i)
       ELSE IF i + 1 > Len(s) THEN eof
       ELSE IF s[i + 1] = "}" THEN [ok |-> TRUE, next |-> i + 2, err |-> ""]
       ELSE IF ~IsString(s[i + 1]) THEN bad(i + 1)
       ELSE IF i + 2 > Len(s) THEN eof
       ELSE IF s[i + 2] # ":" THEN bad(i + 2)
       ELSE LET v == ScanValue(s, i + 3)
            IN IF ~v.ok THEN v
               ELSE IF v.next > Len(s) THEN eof
               ELSE IF s[v.next] # "}" THEN bad(v.next)
               ELSE [ok |-> TRUE, next |-> v.next + 1, err |-> ""]

\* json.NewDecoder(response.Body).Decode(target) for a target of type
\* map[string]string, on stream s: the outcomes (error, target) it can have.
\* The first value of the stream is scanned; only a well-formed value is
\* unmarshalled, and only an object whose member is a string fits the
\* target.  What an ill-typed member leaves in the map is not specified.
Decode(s, target) ==
    LET sc == ScanValue(s, 1)
        typeErr(what) == <<"json: cannot unmarshal " \o what>>
    IN IF ~sc.ok THEN { [err |-> <<sc.err>>, target |-> target] }
       ELSE IF s[1] # "{" THEN
            { [err |-> typeErr(IF s[1] = "1" THEN "number" ELSE "string"),
               target |-> target] }
       ELSE IF sc.next = 3 THEN
            { [err |-> NoErr, target |-> [nil |-> FALSE, m |-> EmptyMap]] }
       ELSE IF IsString(s[4]) THEN
            { [err |-> NoErr,
               target |-> [nil |-> FALSE,
                           m |-> MapSet(EmptyMap, StringOf(s[2]), StringOf(s[4]))]] }
       ELSE { [err |-> typeErr(IF s[4] = "1" THEN "number" ELSE "object"),
               target |-> [nil |-> FALSE, m |-> m]]
                : m \in {EmptyMap, MapSet(EmptyMap, StringOf(s[2]), "")} }

\* NilCheck with the two messages exchanged.
NilCheckSwapped(response) ==
    IF response.nil THEN <<"response body is nil">>
    ELSE IF ~response.hasBody THEN <<"response is nil">>
    ELSE NoErr

\* client.go:207-213: the error of the two nil checks, if any.
NilCheck(response) ==
    IF response.nil THEN <<"response is nil">>
    ELSE IF ~response.hasBody THEN <<"response body is nil">>
    ELSE NoErr

\* client.go:206-217.  ResponseToJson is called with the response and a nil
\* map as target: it returns the error of a nil check, or else registers the
\* deferred Body.Close().
JsonCall ==
    /\ rtj.pc = "idle"
    /\ rtj' = IF NilCheck(rtj.response) # NoErr
              THEN [rtj EXCEPT !.pc = "done", !.err = NilCheck(rtj.response),
                               !.returned = TRUE]
              ELSE [rtj EXCEPT !.pc = "decode", !.deferred = TRUE]
    /\ UNCHANGED <<opts, built, active, client, lim, pc, req, rline, body,
                   ctxDone, attempt, resp, err, timer, ret, stat, gap>>

\* client.go:219-223: the body is read and decoded into the target, and the
\* return value is set.
JsonDecode ==
    /\ rtj.pc = "decode"
    /\ \E out \in Decode(rtj.response.data, rtj.target) :
          rtj' = [rtj EXCEPT
                    !.pc = "return",
                    !.reads = @ + 1,
                    !.target = out.target,
                    !.err = IF out.err = NoErr THEN NoErr
                            ELSE Wrap("failed to decode response", out.err)]
    /\ UNCHANGED <<opts, built, active, client, lim, pc, req, rline, body,
                   ctxDone, attempt, resp, err, timer, ret, stat, gap>>

\* RunDeferred with the body closed only when decoding succeeded.
RunDeferredOnSuccess(j) ==
    IF j.deferred /\ j.err = NoErr THEN [j EXCEPT !.closes = @ + 1] ELSE j

\* client.go:215-217: the deferred function closes the body, whatever is
\* being returned.
RunDeferred(j) == IF j.deferred THEN [j EXCEPT !.closes = @ + 1] ELSE j

\* The function returns: its deferred call runs, then the caller has the
\* result.
JsonReturn ==
    /\ rtj.pc = "return"
    /\ rtj' = [RunDeferred(rtj) EXCEPT !.pc = "done", !.returned = TRUE]
    /\ UNCHANGED <<opts, built, active, client, lim, pc, req, rline, body,
                   ctxDone, attempt, resp, err, timer, ret, stat, gap>>

\* The decoding specification: ResponseToJson called once with any of the
\* JsonResponses.
InitJson ==
    /\ opts = <<>>
    /\ built = FALSE
    /\ active = {}
    /\ client = defaultClient
    /\ IdleDo
    /\ \E response \in JsonResponses :
          rtj = [IdleJson EXCEPT !.response = response]

NextJson ==
    \/ JsonCall
    \/ JsonDecode
    \/ JsonReturn

SpecJson == InitJson /\ [][NextJson]_vars

\* The builder specification: NewClient called once with any list of at most
\* MaxOpts of the options BuildOptions.
BuildOptions ==
    { WithClient("custom"),
      WithRateLimit(60), WithRateLimit(30), WithRateLimit(-60),
      WithBasicAuth("u", "p"), WithBasicAuth("u", "q"), WithBearerAuth("t"),
      WithUserAgent("a"),
      WithHeaders([k \in {"User-Agent", "Authorization"} |-> "m"]) }
    \cup { WithHeader(k, "b") : k \in RawKeys }
    \cup { WithRetries(n, f) : n \in {-1, 0, MaxR}, f \in {"nil", "always"} }

RECURSIVE OptionLists(_)
OptionLists(n) ==
    IF n = 0 THEN {<<>>}
    ELSE OptionLists(n - 1)
         \cup { Append(os, o) : os \in OptionLists(n - 1), o \in BuildOptions }

NewClientCall(os) ==
    /\ ~built
    /\ opts' = os
    /\ client' = NewClient(os)
    /\ built' = TRUE
    /\ UNCHANGED <<rtj, active, lim, pc, req, rline, body, ctxDone, attempt, resp, err, timer,
                   ret, stat, gap>>

InitBuild ==
    /\ opts = <<>>
    /\ built = FALSE
    /\ active = {}
    /\ client = defaultClient
    /\ IdleDo
    /\ rtj = IdleJson

NextBuild == \E os \in OptionLists(MaxOpts) : NewClientCall(os)

SpecBuild == InitBuild /\ [][NextBuild]_vars


\* ------------------------------------------------------------------ claims

Returned(c) == pc[c] = "done"

\* Do returned the error of the admission gate.
GateFailed(c) ==
    /\ ret[c].returned
    /\ ret[c].err # NoErr
    /\ Head(ret[c].err) = "failed to wait for rate limiter"

\* Do returned after its retry loop.
LoopReturned(c) == Returned(c) /\ stat[c].injected /\ ~GateFailed(c)

\* C1: for max_retries R >= 0 and a predicate that answered true after every
\* attempt, a Do call that passed the gate and returned has invoked the
\* transport exactly R + 1 times, whatever the attempts returned.
C1_AlwaysContinueAttempts ==
    \A c \in Callers :
        ( /\ LoopReturned(c)
          /\ client.MaxRetries >= 0
          /\ client.ShouldRetryFunc # "nil"
          /\ stat[c].vetoAt = -1 )
        => stat[c].inv = client.MaxRetries + 1

\* C1 witness: a call with the always-true predicate ran all MaxR + 1
\* attempts, one of which succeeded, and the last one failed.
C1_Witness ==
    \E c \in Callers :
        /\ LoopReturned(c)
        /\ client.ShouldRetryFunc = "always"
        /\ client.MaxRetries = MaxR
        /\ stat[c].inv = MaxR + 1
        /\ stat[c].oks >= 1
        /\ stat[c].tlast.err # NoErr

\* C2: once the predicate has answered false after attempt k, the call has
\* made exactly k + 1 transport invocations and k calls of time.Sleep (those
\* after attempts 0..k-1, all finished), and it is leaving or has left the
\* loop: nothing more is invoked and no delay follows the veto.
C2_VetoStopsAtOnce ==
    \A c \in Callers :
        stat[c].vetoAt # -1 =>
            /\ 0 <= stat[c].vetoAt /\ stat[c].vetoAt <= client.MaxRetries
            /\ stat[c].inv = stat[c].vetoAt + 1
            /\ stat[c].sleeps = stat[c].vetoAt
            /\ stat[c].slept = stat[c].sleepReq
            /\ pc[c] \in {"exit", "done"}

\* C2 witness: the predicate answered true after attempt 0 and false after
\* attempt 1, and Do returned after two invocations.
C2_Witness ==
    \E c \in Callers :
        /\ Returned(c)
        /\ client.MaxRetries = MaxR
        /\ stat[c].vetoAt = 1
        /\ stat[c].inv = 2

\* C3: with no predicate and max_retries R >= 0, a Do call that passed the
\* gate and returned has invoked the transport exactly R + 1 times and asked
\* no predicate, whatever the attempts returned.
C3_NoPredicateRunsAll ==
    \A c \in Callers :
        ( /\ LoopReturned(c)
          /\ client.MaxRetries >= 0
          /\ client.ShouldRetryFunc = "nil" )
        => /\ stat[c].inv = client.MaxRetries + 1
           /\ stat[c].evals = 0

\* C3 witness: without a predicate every one of the MaxR + 1 attempts
\* returned a 200 response, the first included, and all were made.
C3_Witness ==
    \E c \in Callers :
        /\ LoopReturned(c)
        /\ client.ShouldRetryFunc = "nil"
        /\ client.MaxRetries = MaxR
        /\ stat[c].oks = MaxR + 1

\* C4: a Do call that returned after at least one attempt returns what the
\* last transport invocation (attempt inv - 1) returned: its error wrapped
\* once and no response, or else its response, whatever its status, and no
\* error.
C4_ResultOfLastAttempt ==
    \A c \in Callers :
        (LoopReturned(c) /\ stat[c].inv >= 1) =>
            LET o == stat[c].tlast
            IN IF o.err # NoErr
               THEN /\ o.err[2] = ToString(stat[c].inv - 1)
                    /\ ret[c].resp = NilResp
                    /\ ret[c].err = <<"failed to do request">> \o o.err
               ELSE /\ o.resp.attempt = stat[c].inv - 1
                    /\ ret[c].resp = o.resp
                    /\ ret[c].err = NoErr

\* C4 witness: an earlier attempt returned a 200 response, the last attempt
\* failed, and Do returned the error.
C4_Witness ==
    \E c \in Callers :
        /\ LoopReturned(c)
        /\ stat[c].oks >= 1
        /\ stat[c].tlast.err # NoErr
        /\ ret[c].err # NoErr

\* C5: after header injection the request carries, for every configured
\* pair, the configured value under that key (looked up as net/http does, by
\* the canonical key), and every transport invocation sees it.
C5_ConfiguredHeaderWins ==
    \A c \in Callers :
        stat[c].injected =>
            \A k \in DOMAIN client.Headers :
                /\ req[c][CanonicalHeaderKey(k)] = client.Headers[k]
                /\ \A h \in stat[c].seen :
                       h[CanonicalHeaderKey(k)] = client.Headers[k]

\* C6, in every state: a call that returned the gate error belongs to a
\* client with a limiter, invoked the transport zero times, asked no
\* predicate, holds no token and returned no response.
C6_GateFailedState ==
    \A c \in Callers :
        GateFailed(c) =>
            /\ HasLimiter
            /\ stat[c].inv = 0
            /\ stat[c].evals = 0
            /\ stat[c].tokens = 0
            /\ ret[c].resp = NilResp
            /\ ret[c].err = <<"failed to wait for rate limiter", "context canceled">>

\* C6, in every step: a call leaving the gate goes on to the loop untouched
\* by the limiter when none is configured (even with a done context), and
\* fails with the gate error when a limiter is configured and its context is
\* done; a call blocked in Wait whose context is done before its timer has
\* fired fails with the gate error as its next step, before time passes.
C6_GateStep ==
    \A c \in Callers :
        /\ (pc[c] = "gate" /\ pc'[c] # "gate") =>
              IF ~client.RateLimiter.set
              THEN pc'[c] = "loop" /\ lim' = lim /\ stat'[c] = stat[c]
              ELSE IF ctxDone[c]
              THEN pc'[c] = "done" /\ GateFailed(c)'
              ELSE pc'[c] \in {"loop", "waiting"}
        /\ (pc[c] = "waiting" /\ ctxDone[c] /\ timer[c] > 0) =>
              /\ timer'[c] = timer[c] \/ pc'[c] = "done"
              /\ pc'[c] # "waiting" => (pc'[c] = "done" /\ GateFailed(c)')

\* C6: with a limiter, a done context at the gate or during the wait fails Do
\* at once with the gate error and without any transport invocation; without
\* a limiter the gate is a no-op.
C6_GateCancellation == []C6_GateFailedState /\ [][C6_GateStep]_vars

\* C6 witness: a call whose context was cancelled while it waited for its
\* reserved token returned the gate error.
C6_Witness ==
    \E c \in Callers :
        /\ GateFailed(c)
        /\ stat[c].order > 1
        /\ stat[c].inv = 0

\* 0 + 1 + ... + (n - 1)
RECURSIVE SumBelow(_)
SumBelow(n) == IF n <= 0 THEN 0 ELSE (n - 1) + SumBelow(n - 1)

RECURSIVE LastRpm(_)
LastRpm(os) ==
    IF os = <<>> THEN 0
    ELSE IF os[Len(os)].op = "WithRateLimit" THEN os[Len(os)].rpm
    ELSE LastRpm(SubSeq(os, 1, Len(os) - 1))

\* C8: a client configured with N >= 1 requests per minute has a limiter of
\* capacity 1 whose interval is 1 minute / N (one second for N = 60); the
\* first reservation on it never waits, a waiting call waits at most one
\* interval per reservation before it, and no two admissions through the
\* gate, by sequential or concurrent calls, are closer than one interval.
C8_RateLimitSpacing ==
    LastRpm(opts) >= 1 =>
        LET N == LastRpm(opts)
            every == client.RateLimiter.every
        IN /\ client.RateLimiter.set
           /\ client.RateLimiter.burst = 1
           /\ every * N <= Minute /\ Minute < (every + 1) * N
           /\ N = 60 => every = Second
           /\ gap.admits >= 2 => gap.last >= every
           /\ \A c \in Callers :
                 /\ stat[c].order = 1 => pc[c] # "waiting"
                 /\ pc[c] = "waiting" => timer[c] <= (stat[c].order - 1) * every

\* C8 witness: at 60 requests per minute two calls were admitted, exactly
\* one second apart.
C8_Witness ==
    /\ LastRpm(opts) = 60
    /\ gap.admits = 2
    /\ gap.last = 1 * Second
    /\ \A c \in active : stat[c].tokens = 1

\* C9, in every state: a call has made at most max_retries + 1 transport
\* invocations, and a call that has returned is past its loop with every
\* delay it started finished.
C9_Bounded ==
    \A c \in Callers :
        /\ stat[c].inv <= (IF client.MaxRetries >= 0 THEN client.MaxRetries + 1 ELSE 0)
        /\ attempt[c] <= (IF client.MaxRetries >= 0 THEN client.MaxRetries + 1 ELSE 0)
        /\ ret[c].returned <=> pc[c] = "done"
        /\ (ret[c].returned /\ stat[c].injected) =>
              /\ timer[c] = 0
              /\ stat[c].slept = stat[c].sleepReq
              /\ GateFailed(c) \/ stat[c].vetoAt # -1 \/ attempt[c] > client.MaxRetries

\* C9: every Do call that was started returns, given that each transport
\* invocation returns and the limiter's wait returns; it never makes more
\* than max_retries + 1 transport invocations and returns only after its loop
\* and all its delays.
C9_DoTerminates ==
    /\ []C9_Bounded
    /\ \A c \in Callers : (pc[c] # "idle") ~> (pc[c] = "done")

\* C9 witness: a call that waited at the gate and slept between attempts has
\* returned after max_retries + 1 attempts.
C9_Witness ==
    \E c \in Callers :
        /\ LoopReturned(c)
        /\ stat[c].order > 1
        /\ stat[c].slept >= 1
        /\ stat[c].inv = client.MaxRetries + 1

\* Whether option o writes the configured header k, and the value it writes.
WritesHeader(o, k) ==
    \/ o.op = "WithHeader" /\ o.key = k
    \/ o.op = "WithHeaders" /\ k \in DOMAIN o.headers
    \/ o.op \in {"WithBasicAuth", "WithBearerAuth"} /\ k = "Authorization"
    \/ o.op = "WithUserAgent" /\ k = "User-Agent"

HeaderWritten(o, k) ==
    CASE o.op = "WithHeader" -> o.value
      [] o.op = "WithHeaders" -> o.headers[k]
      [] o.op = "WithBasicAuth" ->
            "Basic " \o Base64(o.username \o ":" \o o.password)
      [] o.op = "WithBearerAuth" -> "Bearer " \o o.token
      [] o.op = "WithUserAgent" -> o.ua

\* The position of the last option of os among the positions I, 0 if none.
LastOf(I) == IF I = {} THEN 0 ELSE CHOOSE i \in I : \A j \in I : j <= i

\* C10: after NewClient(opts) every configuration field holds what the last
\* option writing it wrote, and the default if no option writes it: each
\* header key of c.Headers, the rate limiter, the transport, and the retry
\* count with its predicate; Basic auth followed by Bearer auth leaves
\* Authorization = "Bearer <token>".
C10_LastOptionWins ==
    built =>
        LET n == Len(opts)
            lastLimit == LastOf({i \in 1..n : opts[i].op = "WithRateLimit"})
            lastClient == LastOf({i \in 1..n : opts[i].op = "WithClient"})
            lastRetries == LastOf({i \in 1..n : opts[i].op = "WithRetries"})
        IN /\ \A k \in RawKeys :
                 LET i == LastOf({j \in 1..n : WritesHeader(opts[j], k)})
                 IN IF i = 0
                    THEN k \notin DOMAIN client.Headers
                    ELSE /\ k \in DOMAIN client.Headers
                         /\ client.Headers[k] = HeaderWritten(opts[i], k)
           /\ DOMAIN client.Headers \subseteq RawKeys
           /\ client.RateLimiter =
                 IF lastLimit = 0 THEN NoLimiter
                 ELSE RateLimitOption(opts[lastLimit].rpm)
           /\ client.HttpClient =
                 IF lastClient = 0 THEN "default" ELSE opts[lastClient].client
           /\ client.MaxRetries =
                 IF lastRetries = 0 THEN 0 ELSE opts[lastRetries].count
           /\ client.ShouldRetryFunc =
                 IF lastRetries = 0 THEN "nil" ELSE opts[lastRetries].retryFunc
           /\ ( /\ n >= 2
                /\ opts[n - 1].op = "WithBasicAuth"
                /\ opts[n].op = "WithBearerAuth" )
              => client.Headers["Authorization"] = "Bearer " \o opts[n].token

\* C10 witness: NewClient(WithBasicAuth, WithBearerAuth) left the bearer
\* token, and only it, in Authorization.
C10_Witness ==
    /\ built
    /\ opts = <<WithBasicAuth("u", "p"), WithBearerAuth("t")>>
    /\ client.Headers = [k \in {"Authorization"} |-> "Bearer t"]


\* C11, in every state: a call past the gate is where its attempts and
\* delays put it, cancelled context or not: a delay in progress has exactly
\* its remaining time on the timer, and a call that returned from the loop
\* with a done context has finished every delay it began and, unless the
\* predicate answered false, made all max_retries + 1 attempts.
C11_PastGateState ==
    \A c \in Callers :
        ctxDone[c] =>
            /\ pc[c] = "sleeping" =>
                  stat[c].slept + timer[c] = stat[c].sleepReq
            /\ LoopReturned(c) =>
                  /\ stat[c].slept = stat[c].sleepReq
                  /\ stat[c].vetoAt = -1 =>
                        stat[c].inv = (IF client.MaxRetries >= 0
                                       THEN client.MaxRetries + 1 ELSE 0)

\* C11, in every step: cancelling changes nothing of a call but its
\* context; with a done context a call past the gate never returns the gate
\* error, a delay with time left stays a delay (only time shortens it), an
\* attempt that is due is made, and Do returns only from the loop's break or
\* from the failed loop condition.
C11_PastGateStep ==
    \A c \in Callers :
        /\ ctxDone'[c] # ctxDone[c] =>
              /\ pc' = pc /\ timer' = timer /\ attempt' = attempt
              /\ lim' = lim /\ ret' = ret /\ req' = req
        /\ (ctxDone[c] /\ pc[c] \in {"loop", "sleeping", "exit"}) =>
              /\ ~GateFailed(c)'
              /\ (pc[c] = "sleeping" /\ timer[c] > 0) =>
                    /\ pc'[c] = "sleeping"
                    /\ timer'[c] \in {timer[c], timer[c] - 1}
              /\ (pc[c] = "loop" /\ attempt[c] <= client.MaxRetries) =>
                    \/ pc'[c] = "loop" /\ attempt'[c] = attempt[c]
                                       /\ stat'[c].inv = stat[c].inv
                    \/ pc'[c] \in {"loop", "sleeping", "exit"}
                          /\ stat'[c].inv = stat[c].inv + 1

\* C11: cancelling the context after the gate does not stop Do; a delay that
\* has begun runs to completion and the remaining attempts are made unless
\* the predicate answers false.
C11_CancelAfterGateIgnored == []C11_PastGateState /\ [][C11_PastGateStep]_vars

\* C11 witness: on a rate-limited client a call that got its token without
\* waiting had its context cancelled in the middle of a retry delay, and
\* still made all MaxR + 1 attempts and returned from the loop.
C11_Witness ==
    \E c \in Callers :
        /\ LoopReturned(c)
        /\ HasLimiter
        /\ stat[c].tokens = 1
        /\ stat[c].midSleep
        /\ ctxDone[c]
        /\ stat[c].vetoAt = -1
        /\ stat[c].inv = MaxR + 1

\* The body of the request with which Do was entered.
EnteredBody(c) ==
    IF stat[c].called = "Do" THEN stat[c].given.body
    ELSE HelperBody(stat[c].called, stat[c].given.body)

\* C12: every transport invocation of a call is handed the same request
\* (one header map, one method and URL), and Do never rewinds its body: of a
\* request entered with a single-use body only attempt 0 is handed the body
\* unread, every later attempt is handed it spent, and it stays spent.
C12_BodyNeverRewound ==
    \A c \in Callers :
        stat[c].injected =>
            /\ Cardinality(stat[c].seen) <= 1
            /\ Cardinality(stat[c].lines) <= 1
            /\ stat[c].fresh + stat[c].stale <= stat[c].inv
            /\ EnteredBody(c) = "nil" =>
                  body[c] = "nil" /\ stat[c].fresh = 0 /\ stat[c].stale = 0
            /\ EnteredBody(c) = "unread" =>
                  /\ stat[c].fresh = (IF stat[c].inv >= 1 THEN 1 ELSE 0)
                  /\ stat[c].stale = stat[c].inv - stat[c].fresh
                  /\ body[c] = (IF stat[c].inv >= 1 THEN "spent" ELSE "unread")

\* C12 witness: a POST with a single-use body went through MaxR + 1
\* attempts; the MaxR retries were all handed the spent body.
C12_Witness ==
    \E c \in Callers :
        /\ LoopReturned(c)
        /\ rline[c].Method = "POST"
        /\ EnteredBody(c) = "unread"
        /\ stat[c].inv = MaxR + 1
        /\ stat[c].fresh = 1
        /\ stat[c].stale = MaxR

\* C13, in every state of a rate-limited client: a call is past the gate
\* exactly if the limiter granted it a token, one token each and never a
\* shared one: admissions and granted tokens match one to one, the
\* reservations of different callers are different ones, and a call that
\* failed at the gate had its context cancelled.
C13_OwnToken ==
    client.RateLimiter.set =>
        /\ \A c \in Callers :
              /\ stat[c].tokens \in {0, 1}
              /\ (pc[c] \in {"loop", "sleeping", "exit"} \/ LoopReturned(c))
                    <=> stat[c].tokens = 1
              /\ stat[c].inv >= 1 => stat[c].tokens = 1
              /\ GateFailed(c) => ctxDone[c]
        /\ gap.admits = Cardinality({c \in Callers : stat[c].tokens = 1})
        /\ \A c, d \in Callers :
              (c # d /\ stat[c].order > 0) => stat[c].order # stat[d].order
        /\ \A c \in Callers : stat[c].order <= lim.res

\* C13: on a rate-limited client no caller is admitted without a token of
\* its own, and every caller that has reached the gate, alone or beside
\* other callers that wait, are admitted or give up, is eventually granted
\* its token and makes its first transport invocation (max_retries >= 0),
\* unless its own context is cancelled and it fails at the gate.
C13_ConcurrentAdmission ==
    /\ []C13_OwnToken
    /\ \A c \in Callers :
          (pc[c] = "gate" /\ client.RateLimiter.set /\ client.MaxRetries >= 0)
              ~> (GateFailed(c) \/ (stat[c].tokens = 1 /\ stat[c].inv >= 1))

\* C13 witness: two callers were at the gate of one limiter together; both
\* were granted a token, the second after waiting for its reservation, and
\* both have invoked the transport, neither context being cancelled.
C13_Witness ==
    /\ client.RateLimiter.set
    /\ client.RateLimiter.every > 0
    /\ \A c \in {"c1", "c2"} :
          /\ stat[c].tokens = 1
          /\ stat[c].inv >= 1
          /\ ~ctxDone[c]
    /\ \E c \in {"c1", "c2"} : stat[c].order = 2

\* C14, in every state: the client is as NewClient built it from its options.
C14_ClientAsBuilt == built => client = NewClient(opts)

\* C14, in every step: the configuration (transport handle, header map,
\* limiter handle, retry count and predicate) is left as it is, and a step
\* of one caller's call leaves every other caller's request, locals and
\* result alone: what the calls share and change is the limiter's bucket.
C14_Frame ==
    /\ client' = client
    /\ opts' = opts
    /\ \A c, d \in Callers :
          (c # d /\ pc'[c] # pc[c]) =>
              /\ pc'[d] = pc[d] /\ req'[d] = req[d] /\ rline'[d] = rline[d]
              /\ body'[d] = body[d] /\ attempt'[d] = attempt[d]
              /\ resp'[d] = resp[d] /\ err'[d] = err[d] /\ ret'[d] = ret[d]
              /\ timer'[d] = timer[d]

\* C14: Do never changes the client's configuration, whatever the outcome
\* of the call, and concurrent calls share no state but the rate limiter.
C14_ConfigurationUnchanged == []C14_ClientAsBuilt /\ [][C14_Frame]_vars

\* C14 witness: on a client with a configured header, a limiter and
\* retries, one call failed at the gate and a concurrent one went through
\* the limiter and returned the transport's error; the client is as built.
C14_Witness ==
    /\ client = NewClient(opts)
    /\ DOMAIN client.Headers # {}
    /\ client.RateLimiter.set
    /\ client.MaxRetries = MaxR
    /\ lim.res = 2
    /\ \E c, d \in Callers :
          /\ GateFailed(c)
          /\ LoopReturned(d)
          /\ stat[d].orig # EmptyMap
          /\ ret[d].err # NoErr

\* The JSON documents that are a map[string]string, and the map each is.
MapDocs ==
    { <<"{", "}">> } \cup { <<"{", a, ":", b, "}">> : a, b \in {"k", "v"} }

MapOf(doc) ==
    IF Len(doc) = 2 THEN EmptyMap
    ELSE [x \in {StringOf(doc[2])} |-> StringOf(doc[4])]

\* The documents of MapDocs that stream s starts with (at most one).
LeadingDocs(s) ==
    { d \in MapDocs : Len(d) <= Len(s) /\ SubSeq(s, 1, Len(d)) = d }

\* C15: a ResponseToJson call that returned has returned "response is nil"
\* for a nil response, else "response body is nil" for a nil body, in both
\* cases without reading, closing or writing the target; else, if the body
\* does not start with a JSON document that is a map of strings, an error
\* that wraps the decoder's under "failed to decode response"; and else no
\* error, the target holding the map the document denotes.  Until the nil
\* checks have passed nothing is read or closed.
C15_ResponseToJsonErrors ==
    /\ rtj.pc = "idle" => (rtj.reads = 0 /\ rtj.closes = 0 /\ ~rtj.returned)
    /\ rtj.returned =>
          IF rtj.response.nil
          THEN /\ rtj.err = <<"response is nil">>
               /\ rtj.reads = 0 /\ rtj.closes = 0 /\ rtj.target = NilTarget
          ELSE IF ~rtj.response.hasBody
          THEN /\ rtj.err = <<"response body is nil">>
               /\ rtj.reads = 0 /\ rtj.closes = 0 /\ rtj.target = NilTarget
          ELSE IF LeadingDocs(rtj.response.data) = {}
          THEN /\ Len(rtj.err) = 2
               /\ rtj.err[1] = "failed to decode response"
               /\ rtj.reads = 1
          ELSE /\ rtj.err = NoErr
               /\ rtj.reads = 1
               /\ ~rtj.target.nil
               /\ \A d \in LeadingDocs(rtj.response.data) :
                      rtj.target.m = MapOf(d)

\* C15 witness: the body {"key": "value"} was decoded: no error, and the
\* target maps "key" to "value".
C15_Witness ==
    /\ rtj.returned
    /\ rtj.response = ResponseWith(<<"{", "k", ":", "v", "}">>)
    /\ rtj.err = NoErr
    /\ rtj.target.m = [x \in {"key"} |-> "value"]

\* C16: the body of a response is closed at most once and never before it
\* was read, and when ResponseToJson has returned for a response with a
\* body it has been closed exactly once, whether decoding succeeded or not;
\* a call that has not returned yet has not closed it, and without a body
\* nothing is closed.
C16_BodyClosedOnce ==
    /\ rtj.closes \in {0, 1}
    /\ rtj.closes = 1 => rtj.reads = 1
    /\ ~rtj.returned => rtj.closes = 0
    /\ rtj.returned =>
          rtj.closes = (IF ~rtj.response.nil /\ rtj.response.hasBody THEN 1 ELSE 0)

\* C16 witness: the truncated body {"key": "value was read, decoding failed,
\* and the body was closed once when the call returned.
C16_Witness ==
    /\ rtj.returned
    /\ rtj.response = ResponseWith(<<"{", "k", ":", "v">>)
    /\ rtj.err = <<"failed to decode response", "unexpected EOF">>
    /\ rtj.closes = 1

\* The HTTP method each helper stands for, and the helpers that take a body.
VerbOf ==
    [Head |-> "HEAD", Options |-> "OPTIONS", Get |-> "GET", Post |-> "POST",
     Put |-> "PUT", Patch |-> "PATCH", Delete |-> "DELETE"]

TakesBody == {"Post", "Put", "Patch"}

C18_SingleToken ==
    /\ \A c \in Callers :
          /\ stat[c].tokens <= 1
          /\ (client.RateLimiter.set /\ LoopReturned(c)) => stat[c].tokens = 1
    /\ gap.admits = Cardinality({c \in Callers : stat[c].tokens = 1})
    /\ lim.res <= Cardinality({c \in Callers : stat[c].injected})

\* C18, in every step: a token is granted to a call only at the gate,
\* before its first attempt; a transport invocation and the end of a delay
\* leave the limiter, the admissions and the call's token as they are.
C18_TokenStep ==
    \A c \in Callers :
        /\ stat'[c].tokens # stat[c].tokens =>
              /\ pc[c] \in {"gate", "waiting"}
              /\ pc'[c] = "loop"
              /\ stat[c].inv = 0 /\ attempt[c] = 0
        /\ (stat'[c].inv # stat[c].inv \/ attempt'[c] # attempt[c]) =>
              /\ lim' = lim
              /\ gap' = gap
              /\ stat'[c].tokens = stat[c].tokens

\* C18: Do waits on the limiter once per call, before the first attempt;
\* retries take no tokens.
C18_OneTokenPerCall == []C18_SingleToken /\ [][C18_TokenStep]_vars

\* C18 witness: at 30 requests per minute (one token per two seconds) one
\* call with max_retries = 2 made three transport invocations within one
\* second, on the one token and the one reservation the limiter has served.
C18_Witness ==
    \E c \in Callers :
        /\ LastRpm(opts) = 30
        /\ client.RateLimiter.every = 2 * Second
        /\ LoopReturned(c)
        /\ client.MaxRetries = 2
        /\ stat[c].inv = 3
        /\ stat[c].slept = 1 * Second
        /\ stat[c].tokens = 1
        /\ lim.res = 1
        /\ gap.admits = 1

\* The request of caller c carries each configured header: under the
\* header's (canonical) name it holds a value configured for that name.
CarriesConfigured(c) ==
    \A k \in DOMAIN client.Headers :
        /\ CanonicalHeaderKey(k) \in DOMAIN req[c]
        /\ req[c][CanonicalHeaderKey(k)] \in
              { client.Headers[j] : j \in { x \in DOMAIN client.Headers :
                    CanonicalHeaderKey(x) = CanonicalHeaderKey(k) } }

\* C19, in every state: a call that is at the gate or beyond it, that holds
\* a reservation or a token, that has invoked the transport, or that has
\* returned from Do (with the gate error too), has had every configured
\* header set on its request, and the transport has seen no other header
\* map than that one.
C19_InjectedState ==
    \A c \in Callers :
        /\ ( \/ pc[c] \in {"gate", "waiting", "loop", "sleeping", "exit"}
             \/ stat[c].order > 0
             \/ stat[c].tokens > 0
             \/ stat[c].inv > 0
             \/ GateFailed(c) )
           => (stat[c].injected /\ CarriesConfigured(c))
        /\ stat[c].seen \subseteq {req[c]}
        /\ GateFailed(c) => stat[c].inv = 0

\* C19, in every step: the headers are set in the step that enters Do, from
\* an idle call straight to the gate, and the request's header map is not
\* written again.
C19_InjectionStep ==
    \A c \in Callers :
        /\ req'[c] # req[c] => (pc[c] = "idle" /\ pc'[c] = "gate")
        /\ (pc[c] = "idle" /\ pc'[c] # "idle" /\ stat'[c].injected) =>
              (pc'[c] = "gate" /\ lim' = lim /\ stat'[c].inv = 0)

\* C19: header injection precedes the admission gate and the retry loop;
\* a call that fails at the limiter has still had its request mutated.
C19_InjectionFirst == []C19_InjectedState /\ [][C19_InjectionStep]_vars

\* C19 witness: on a rate-limited client configured with Basic and then
\* Bearer auth, a call whose request came with headers of its own failed at
\* the gate; the request now carries the configured Authorization header in
\* place of its own.
C19_Witness ==
    \E c \in Callers :
        /\ GateFailed(c)
        /\ stat[c].inv = 0
        /\ stat[c].orig = [k \in {"User-Agent", "Authorization"} |-> "orig"]
        /\ client.Headers = [k \in {"Authorization"} |-> "Bearer t"]
        /\ req[c] = [k \in {"User-Agent", "Authorization"} |->
                        IF k = "Authorization" THEN "Bearer t" ELSE "orig"]

\* C20: the header map Do leaves on the request is the same for every order
\* in which the configured map can be iterated, and after
\* NewClient(WithUserAgent("a"), WithHeader("user-agent", "b"), ...) the
\* request carries the later option's value "b" as its User-Agent.
C20_HeaderOrderIndependent ==
    \A c \in Callers :
        stat[c].injected =>
            /\ \A order \in Orders(DOMAIN client.Headers) :
                   req[c] = SetHeaders(stat[c].orig, client.Headers, order)
            /\ ( /\ Len(opts) >= 2
                 /\ opts[1] = WithUserAgent("a")
                 /\ opts[2] = WithHeader("user-agent", "b") )
               => req[c]["User-Agent"] = "b"

\* C21, in every state: with a predicate configured a call has evaluated it
\* as often as it has invoked the transport, the last time with the call's
\* request and the response and error of its last invocation; without one
\* nothing is evaluated; and a call that failed at the gate has evaluated
\* nothing.
C21_EvalsState ==
    \A c \in Callers :
        /\ IF client.ShouldRetryFunc # "nil"
           THEN /\ stat[c].evals = stat[c].inv
                /\ stat[c].inv >= 1 =>
                      stat[c].plast = [req |-> req[c],
                                       resp |-> stat[c].tlast.resp,
                                       err |-> stat[c].tlast.err]
           ELSE stat[c].evals = 0
        /\ GateFailed(c) => stat[c].evals = 0

\* C21, in every step: the predicate is evaluated only in the step of a
\* transport invocation, once, and in the step of every invocation, that
\* of attempt = max_retries included.
C21_EvalStep ==
    \A c \in Callers :
        /\ stat'[c].evals # stat[c].evals =>
              /\ stat'[c].evals = stat[c].evals + 1
              /\ stat'[c].inv = stat[c].inv + 1
        /\ (stat'[c].inv # stat[c].inv /\ client.ShouldRetryFunc # "nil") =>
              /\ stat'[c].evals = stat[c].evals + 1
              /\ stat'[c].plast.resp = resp'[c]
              /\ stat'[c].plast.err = err'[c]
              /\ stat'[c].plast.req = req[c]

\* C21: a configured predicate is evaluated exactly once after each
\* transport invocation, with the request and that attempt's response and
\* error, the last possible attempt included, and never at the gate.
C21_PredicateAfterEachAttempt == []C21_EvalsState /\ [][C21_EvalStep]_vars

\* C21 witness: with the always-true predicate and max_retries = MaxR a call
\* made MaxR + 1 invocations and as many evaluations, the last one after
\* attempt MaxR on that attempt's transport error.
C21_Witness ==
    \E c \in Callers :
        /\ LoopReturned(c)
        /\ client.ShouldRetryFunc = "always"
        /\ client.MaxRetries = MaxR
        /\ stat[c].evals = MaxR + 1
        /\ stat[c].plast.err = <<"transport error", ToString(MaxR)>>

\* C22: for max_retries >= 0 every Do call that has returned has returned
\* either a response and no error or an error and no response: the gate's
\* failure (a call that returned without having been admitted by the
\* client's limiter) and the failure of the last transport invocation come
\* back as errors that wrap the cause, and a response comes back exactly
\* when the last invocation produced one.
C22_ExactlyOneResult ==
    \A c \in Callers :
        (Returned(c) /\ stat[c].injected /\ client.MaxRetries >= 0) =>
            /\ \/ ret[c].resp # NilResp /\ ret[c].err = NoErr
               \/ ret[c].resp = NilResp /\ ret[c].err # NoErr
            /\ (client.RateLimiter.set /\ stat[c].tokens = 0) =>
                  /\ ret[c].err # NoErr
                  /\ ret[c].err[Len(ret[c].err)] = "context canceled"
            /\ (stat[c].inv >= 1 /\ stat[c].tlast.err # NoErr) =>
                  /\ Len(ret[c].err) = Len(stat[c].tlast.err) + 1
                  /\ SubSeq(ret[c].err, 2, Len(ret[c].err)) = stat[c].tlast.err
            /\ (stat[c].inv >= 1 /\ stat[c].tlast.err = NoErr) =>
                  ret[c].resp = stat[c].tlast.resp /\ ret[c].resp # NilResp

\* C22 witness: of two concurrent calls one failed at the gate and returned
\* only an error, the other returned only a response, a 500 after retries.
C22_Witness ==
    \E c, d \in Callers :
        /\ GateFailed(c)
        /\ ret[c].resp = NilResp
        /\ LoopReturned(d)
        /\ stat[d].inv = client.MaxRetries + 1
        /\ client.MaxRetries >= 1
        /\ ret[d].resp.status = StatusInternalServerError
        /\ ret[d].err = NoErr

\* C23: after NewClient(..., WithRetries(n, f)) with n < 0 the client holds
\* n itself as its retry count, with f.  A Do call on it never invokes the
\* transport, never evaluates the predicate and never sleeps; header
\* injection and the gate run as ever (the call may fail at the gate), and a
\* call that got through returns a nil response together with a nil error,
\* its request carrying the configured headers and, on a rate-limited
\* client, a token having been taken.
C23_NegativeRetryCount ==
    ( /\ opts # <<>>
      /\ opts[Len(opts)].op = "WithRetries"
      /\ opts[Len(opts)].count < 0 ) =>
        /\ client.MaxRetries = opts[Len(opts)].count
        /\ client.ShouldRetryFunc = opts[Len(opts)].retryFunc
        /\ \A c \in Callers :
              /\ stat[c].inv = 0 /\ stat[c].evals = 0 /\ stat[c].sleeps = 0
              /\ pc[c] \notin {"sleeping", "exit"}
              /\ Returned(c) => (GateFailed(c) \/ LoopReturned(c))
              /\ GateFailed(c) => (client.RateLimiter.set /\ ctxDone[c])
              /\ LoopReturned(c) =>
                    /\ ret[c] = [resp |-> NilResp, err |-> NoErr, returned |-> TRUE]
                    /\ CarriesConfigured(c)
                    /\ client.RateLimiter.set => stat[c].tokens = 1

\* C23 witness: NewClient(WithBasicAuth, WithBearerAuth, WithRateLimit(60),
\* WithRetries(-1, always)): a call took its token, invoked nothing and
\* returned nil, nil; its request carries the Authorization header.
C23_Witness ==
    \E c \in Callers :
        /\ client.MaxRetries = -1
        /\ client.ShouldRetryFunc = "always"
        /\ LastRpm(opts) = 60
        /\ Returned(c)
        /\ ret[c] = [resp |-> NilResp, err |-> NoErr, returned |-> TRUE]
        /\ stat[c].tokens = 1
        /\ stat[c].inv = 0
        /\ "Authorization" \in DOMAIN req[c]
        /\ req[c]["Authorization"] = "Bearer t"

\* 1 if the response is one (not nil), else 0.
One(r) == IF r # NilResp THEN 1 ELSE 0

\* C24: Do closes no response body.  At any time the responses the
\* transport has produced for a call are the one Do still holds plus those
\* it has overwritten, all with their bodies open; when Do has returned the
\* caller holds the last attempt's response, if it produced one, and the
\* open bodies out of the caller's reach are those of the non-final
\* attempts that produced a response.
C24_NoResponseReleased ==
    \A c \in Callers :
        /\ stat[c].closed = 0
        /\ stat[c].resps = stat[c].dropped + One(resp[c])
        /\ resp[c] = stat[c].tlast.resp
        /\ LoopReturned(c) =>
              /\ ret[c].resp \in {NilResp, stat[c].tlast.resp}
              /\ stat[c].resps - stat[c].closed - One(ret[c].resp)
                    = stat[c].resps - One(stat[c].tlast.resp)
              /\ stat[c].dropped = stat[c].resps - One(stat[c].tlast.resp)
        /\ GateFailed(c) => stat[c].resps = 0

\* C24 witness: with max_retries = 2 the first two attempts each produced a
\* response and the last failed: Do returned the error, and two open bodies
\* are left that the caller cannot reach.
C24_Witness ==
    \E c \in Callers :
        /\ LoopReturned(c)
        /\ client.MaxRetries = 2
        /\ stat[c].inv = 3
        /\ stat[c].resps = 2
        /\ stat[c].dropped = 2
        /\ ret[c].resp = NilResp
        /\ ret[c].err # NoErr
=============================================================================
